---- MODULE Spec2Model ----
(***************************************************************************)
(* Reservation scheduling subsystem of tsubasa-app: the reservations      *)
(* repository (lib/database/reservations.ts on top of BaseRepository), the *)
(* permission checks (lib/security), the booking hook (useReservations),  *)
(* the quota validator (useCourses), the time utilities (utils/timeUtils)  *)
(* and the slot picker (components/TimeSlotPicker).                        *)
(*                                                                         *)
(* Representation:                                                         *)
(*   - an "HH:mm" string is the pair <<hours, minutes>>;                   *)
(*   - a JS Date is its instant in minutes since the epoch;                *)
(*   - a stored "YYYY-MM-DD" string is the number of that calendar day;    *)
(*   - an ISO timestamp (createdAt, updatedAt) is the value `now` that the *)
(*     writing browser's clock shows at the write;                         *)
(*   - hour quantities (monthlyHours, durationInHours, ...) are held in    *)
(*     minutes, so that `duration / 60` stays exact;                       *)
(*   - the fields courseId and notes of a reservation take part in no      *)
(*     decision of the code and are left out of the records.               *)
(***************************************************************************)
EXTENDS Integers, Sequences, FiniteSets, TLC

VARIABLES
    reservations,   \* the 'reservations' collection; the document id is the index
    call,           \* per browser session: the repository call in flight
    hook,           \* state of one mounted useReservations hook
    quota,          \* an application of validateReservationTime: inputs and result
    app             \* an application of another function or component: inputs and result

vars == <<reservations, call, hook, quota, app>>

----------------------------------------------------------------------------
(* Bounds                                                                  *)

MaxReservations == 2
MaxClock == 1

Sessions == {1, 2}

\* the values `new Date().toISOString()` can take at a write: it is the clock
\* of the browser that runs the repository code, so the timestamps of two
\* sessions are not ordered
Clock == 0..MaxClock

----------------------------------------------------------------------------
(* Users, roles (types/index.ts) and the auth provider                      *)

NoUser == "none"
Uids == {"s1", "s2", "t1", "a1"}
Actors == Uids \cup {NoUser}

users ==
    [u \in Uids |->
        CASE u = "s1" -> [role |-> "student", selectedCourse |-> "light"]
          [] u = "s2" -> [role |-> "parent",  selectedCourse |-> "half"]
          [] u = "t1" -> [role |-> "teacher", selectedCourse |-> "free"]
          [] u = "a1" -> [role |-> "admin",   selectedCourse |-> "free"]]

Statuses == {"confirmed", "cancelled", "completed"}

\* getCurrentAuthUser: FALSE stands for `throw SecurityError(AUTH_REQUIRED)`
getCurrentAuthUser(actor) == actor # NoUser

\* getCurrentAppUser throws when nobody is signed in, when the user record is
\* missing and when the read of the users collection fails (lookupOk = FALSE);
\* isCurrentUserAdmin turns every such throw into `false`.
\* faulty variant: a failed lookup of the user record counts as "admin"
isCurrentUserAdmin_failOpen(actor, lookupOk) ==
    /\ getCurrentAuthUser(actor)
    /\ (~lookupOk \/ users[actor].role = "admin")

isCurrentUserAdmin(actor, lookupOk) ==
    /\ getCurrentAuthUser(actor)
    /\ lookupOk
    /\ users[actor].role = "admin"

requireAdminAccess(actor, lookupOk) ==
    IF isCurrentUserAdmin(actor, lookupOk) THEN "ok" ELSE "SecurityError"

\* isCurrentUserStaff: like isCurrentUserAdmin, every throw of the lookup
\* becomes `false`
isCurrentUserStaff(actor, lookupOk) ==
    /\ getCurrentAuthUser(actor)
    /\ lookupOk
    /\ users[actor].role \in {"admin", "teacher"}

\* faulty variant: the role is not looked at, signing in is enough
requireStaffAccess_anyUser(actor, lookupOk) ==
    IF getCurrentAuthUser(actor) THEN "ok" ELSE "SecurityError"

requireStaffAccess(actor, lookupOk) ==
    IF isCurrentUserStaff(actor, lookupOk) THEN "ok" ELSE "SecurityError"

\* faulty variant: the final `throw` is missing, every signed-in user is let through
canAccessReservationData_anyUser(actor, lookupOk, studentId, teacherId) ==
    IF ~getCurrentAuthUser(actor) THEN "SecurityError" ELSE "ok"

canAccessReservationData(actor, lookupOk, studentId, teacherId) ==
    IF ~getCurrentAuthUser(actor) THEN "SecurityError"
    ELSE IF actor = studentId THEN "ok"
    ELSE IF teacherId # "" /\ actor = teacherId THEN "ok"
    ELSE IF isCurrentUserAdmin(actor, lookupOk) THEN "ok"
    ELSE "SecurityError"

----------------------------------------------------------------------------
(* Dates and times                                                         *)

MinutesPerDay == 24 * 60

\* the instant of 00:00 local time of calendar day `day`, `tz` minutes east of UTC
LocalMidnight(day, tz) == day * MinutesPerDay - tz

\* date.toISOString().split('T')[0]: the UTC calendar day of the instant
toFirestoreDateOnly(date) == date \div MinutesPerDay

getMinutesFromTimeString(timeString) == timeString[1] * 60 + timeString[2]

calculateDuration(startTime, endTime) ==
    getMinutesFromTimeString(endTime) - getMinutesFromTimeString(startTime)

\* parse(t, 'HH:mm', baseDate): minutes after 00:00 of the common base date
parseHHmm(t) == t[1] * 60 + t[2]

\* faulty variant: isAfter / isBefore replaced by "not before" / "not after"
isTimeOverlapping_closed(slot1Start, slot1End, slot2Start, slot2End) ==
    /\ parseHHmm(slot1End) >= parseHHmm(slot2Start)
    /\ parseHHmm(slot1Start) <= parseHHmm(slot2End)

isTimeOverlapping(slot1Start, slot1End, slot2Start, slot2End) ==
    /\ parseHHmm(slot1End) > parseHHmm(slot2Start)
    /\ parseHHmm(slot1Start) < parseHHmm(slot2End)

\* DEFAULT_BUSINESS_HOURS and LESSON_DURATION (minutes)
DEFAULT_BUSINESS_HOURS == [open |-> <<9, 0>>, close |-> <<18, 0>>]

LESSON_DURATION == 60

\* format(date, 'HH:mm') of the instant `minutes` after 00:00 of the base date
formatHHmm(minutes) == <<(minutes \div 60) % 24, minutes % 60>>

\* addHours(date, duration / 60): the instant `duration` minutes later
addHours(date, duration) == date + duration

RECURSIVE generateTimeSlotsFrom(_, _, _)
\* the while loop of generateTimeSlots, from `currentTime` on; `label` is
\* the two times again and is left out of the slot
generateTimeSlotsFrom(currentTime, closeTime, duration) ==
    IF addHours(currentTime, duration) < closeTime
    THEN LET endTime == addHours(currentTime, duration)
         IN <<[startTime |-> formatHHmm(currentTime),
               endTime |-> formatHHmm(endTime)]>>
            \o generateTimeSlotsFrom(endTime, closeTime, duration)
    ELSE <<>>

\* faulty variant: the loop runs while the slot starts before close
generateTimeSlots_overrun(businessHours, duration) ==
    generateTimeSlotsFrom(parseHHmm(businessHours.open),
                          parseHHmm(businessHours.close) + duration, duration)

generateTimeSlots(businessHours, duration) ==
    generateTimeSlotsFrom(parseHHmm(businessHours.open),
                          parseHHmm(businessHours.close), duration)

----------------------------------------------------------------------------
(* BaseRepository                                                          *)

Merge(base, over) ==
    [f \in (DOMAIN base) \cup (DOMAIN over) |->
        IF f \in DOMAIN over THEN over[f] ELSE base[f]]

\* ReservationsRepository.convertToFirestore
convertToFirestore(data, clock) ==
    LET result == IF "date" \in DOMAIN data
                  THEN [data EXCEPT !.date = toFirestoreDateOnly(@)]
                  ELSE data
        createdAt == IF "createdAt" \in DOMAIN result
                     THEN result.createdAt ELSE clock
    IN Merge(result, [createdAt |-> createdAt, updatedAt |-> clock])

NoData == [none |-> TRUE]

IdleCall ==
    [pc |-> "idle", op |-> "none", id |-> 0, data |-> NoData,
     checked |-> "none", error |-> "none"]

\* faulty variant: the check is started but not awaited, the operation runs anyway
executeWithSecurity_runsAnyway(check) ==
    [pc |-> "operation",
     checked |-> IF check = "ok" THEN "passed" ELSE "failed",
     error |-> "none"]

\* executeWithSecurity: the security check runs first; the operation is
\* started only when the check returned; a SecurityError is rethrown as it
\* is, any other error is wrapped in a plain Error.
executeWithSecurity(check) ==
    IF check = "ok"
    THEN [pc |-> "operation", checked |-> "passed", error |-> "none"]
    ELSE IF check = "SecurityError"
    THEN [pc |-> "rejected", checked |-> "failed", error |-> "SecurityError"]
    ELSE [pc |-> "rejected", checked |-> "failed", error |-> "Error"]

\* a rejected call keeps no arguments: only the operation and the error thrown
Invoke(s, op, id, data, check) ==
    LET r == executeWithSecurity(check)
    IN call' = [call EXCEPT ![s] =
                 IF r.pc = "rejected" /\ r.checked = "failed"
                 THEN [IdleCall EXCEPT !.pc = "rejected", !.op = op,
                           !.checked = r.checked, !.error = r.error]
                 ELSE [pc |-> r.pc, op |-> op, id |-> id, data |-> data,
                       checked |-> r.checked, error |-> r.error]]

Exists(reservationId) == reservationId \in 1..Len(reservations)

PendingCreates ==
    Cardinality({s \in Sessions :
                   call[s].pc = "operation" /\ call[s].op = "createReservation"})

----------------------------------------------------------------------------
(* ReservationsRepository                                                  *)

\* faulty variant: only the sign-in is checked, not whose reservation it is
createSecurityCheck_authOnly(actor, lookupOk, reservationData) ==
    IF ~getCurrentAuthUser(actor) THEN "SecurityError" ELSE "ok"

\* customSecurityCheck of createReservation
createSecurityCheck(actor, lookupOk, reservationData) ==
    IF ~getCurrentAuthUser(actor) THEN "SecurityError"
    ELSE IF reservationData.studentId # actor
    THEN (IF requireAdminAccess(actor, lookupOk) = "ok"
          THEN "ok" ELSE "SecurityError")
    ELSE "ok"

\* faulty variant: the ids are taken from the request when it carries them
updateSecurityCheck_trustsPayload(actor, lookupOk, reservationId, updates) ==
    IF ~Exists(reservationId) THEN "Error"
    ELSE canAccessReservationData(actor, lookupOk,
             IF "studentId" \in DOMAIN updates
             THEN updates.studentId ELSE reservations[reservationId].studentId,
             IF "teacherId" \in DOMAIN updates
             THEN updates.teacherId ELSE reservations[reservationId].teacherId)

\* customSecurityCheck of updateReservation: `updates` is in its scope
updateSecurityCheck(actor, lookupOk, reservationId, updates) ==
    IF ~Exists(reservationId) THEN "Error"
    ELSE canAccessReservationData(actor, lookupOk,
             reservations[reservationId].studentId,
             reservations[reservationId].teacherId)

\* customSecurityCheck of updateReservationStatus
statusSecurityCheck(actor, lookupOk, reservationId, statusData) ==
    IF ~Exists(reservationId) THEN "Error"
    ELSE canAccessReservationData(actor, lookupOk,
             reservations[reservationId].studentId,
             reservations[reservationId].teacherId)

\* customSecurityCheck of updateReservationTime
timeSecurityCheck(actor, lookupOk, reservationId, timeData) ==
    IF ~Exists(reservationId) THEN "Error"
    ELSE canAccessReservationData(actor, lookupOk,
             reservations[reservationId].studentId,
             reservations[reservationId].teacherId)

createReservation(s, actor, lookupOk, reservationData) ==
    /\ call[s].pc = "idle"
    /\ Len(reservations) + PendingCreates < MaxReservations
    /\ Invoke(s, "createReservation", 0, reservationData,
              createSecurityCheck(actor, lookupOk, reservationData))
    /\ UNCHANGED <<reservations, hook, quota, app>>

updateReservation(s, actor, lookupOk, reservationId, updates) ==
    /\ call[s].pc = "idle"
    /\ Invoke(s, "updateReservation", reservationId, updates,
              updateSecurityCheck(actor, lookupOk, reservationId, updates))
    /\ UNCHANGED <<reservations, hook, quota, app>>

updateReservationStatus(s, actor, lookupOk, reservationId, statusData) ==
    /\ call[s].pc = "idle"
    /\ Invoke(s, "updateReservationStatus", reservationId, statusData,
              statusSecurityCheck(actor, lookupOk, reservationId, statusData))
    /\ UNCHANGED <<reservations, hook, quota, app>>

updateReservationTime(s, actor, lookupOk, reservationId, timeData) ==
    /\ call[s].pc = "idle"
    /\ Invoke(s, "updateReservationTime", reservationId, timeData,
              timeSecurityCheck(actor, lookupOk, reservationId, timeData))
    /\ UNCHANGED <<reservations, hook, quota, app>>

\* BaseRepository.create, the operation: convertToFirestore + addDoc
addDoc(s, now) ==
    /\ call[s].pc = "operation"
    /\ call[s].op = "createReservation"
    /\ reservations' = Append(reservations, convertToFirestore(call[s].data, now))
    /\ call' = [call EXCEPT ![s] = IdleCall]
    /\ UNCHANGED <<hook, quota, app>>

\* BaseRepository.update, the operation: convertToFirestore + updateDoc
updateDoc(s, now) ==
    /\ call[s].pc = "operation"
    /\ call[s].op \in {"updateReservation", "updateReservationStatus",
                       "updateReservationTime"}
    /\ IF Exists(call[s].id)
       THEN /\ reservations' =
                 [reservations EXCEPT ![call[s].id] =
                     Merge(@, convertToFirestore(call[s].data, now))]
            /\ call' = [call EXCEPT ![s] = IdleCall]
       ELSE \* updateDoc of a missing document fails
            /\ call' = [call EXCEPT ![s] =
                         [IdleCall EXCEPT !.pc = "rejected", !.op = call[s].op,
                             !.checked = call[s].checked, !.error = "Error"]]
            /\ UNCHANGED reservations
    /\ UNCHANGED <<hook, quota, app>>

\* the store call (addDoc / updateDoc) itself fails: wrapped in a plain Error
storeFailure(s) ==
    /\ call[s].pc = "operation"
    /\ call' = [call EXCEPT ![s] =
                 [IdleCall EXCEPT !.pc = "rejected", !.op = call[s].op,
                     !.checked = call[s].checked, !.error = "Error"]]
    /\ UNCHANGED <<reservations, hook, quota, app>>

\* the rejected promise reaches the caller
throwToCaller(s) ==
    /\ call[s].pc = "rejected"
    /\ call' = [call EXCEPT ![s] = IdleCall]
    /\ UNCHANGED <<reservations, hook, quota, app>>

----------------------------------------------------------------------------
(* Course plans (lib/courseData) and the quota validator (useCourses)      *)

\* COURSE_PLANS / getPlanInfo: monthlyHours of the plan, in minutes
getPlanInfo(planId) ==
    CASE planId = "light" -> [id |-> "light", monthlyHours |-> 15 * 60]
      [] planId = "half"  -> [id |-> "half",  monthlyHours |-> 30 * 60]
      [] planId = "free"  -> [id |-> "free",  monthlyHours |-> 45 * 60]

NoCourse == [present |-> FALSE]

\* currentCourseInfo: null while the profile is not loaded
currentCourseInfo(uid, profileLoaded) ==
    IF uid # NoUser /\ profileLoaded
    THEN [present |-> TRUE,
          monthlyHours |-> getPlanInfo(users[uid].selectedCourse).monthlyHours]
    ELSE NoCourse

\* courseUsage of useCourses: usedHours is the placeholder 0
courseUsage(courseInfo) ==
    IF ~courseInfo.present THEN NoCourse
    ELSE [present |-> TRUE, usedHours |-> 0,
          totalHours |-> courseInfo.monthlyHours,
          remainingHours |-> courseInfo.monthlyHours - 0]

\* faulty variant: `>=` instead of `>` in the comparison with the remaining hours
validateReservationTime_offByOne(requestedHours, usage, courseInfo) ==
    IF ~usage.present \/ ~courseInfo.present
    THEN [isValid |-> FALSE, message |-> "noCourseInfo", maxAllowedHours |-> 0]
    ELSE IF requestedHours <= 0
    THEN [isValid |-> FALSE, message |-> "atLeastOneHour",
          maxAllowedHours |-> usage.remainingHours]
    ELSE IF requestedHours >= usage.remainingHours
    THEN [isValid |-> FALSE, message |-> "exceedsRemaining",
          maxAllowedHours |-> usage.remainingHours]
    ELSE [isValid |-> TRUE, message |-> "ok",
          maxAllowedHours |-> usage.remainingHours]

validateReservationTime(requestedHours, usage, courseInfo) ==
    IF ~usage.present \/ ~courseInfo.present
    THEN [isValid |-> FALSE, message |-> "noCourseInfo", maxAllowedHours |-> 0]
    ELSE IF requestedHours <= 0
    THEN [isValid |-> FALSE, message |-> "atLeastOneHour",
          maxAllowedHours |-> usage.remainingHours]
    ELSE IF requestedHours > usage.remainingHours
    THEN [isValid |-> FALSE, message |-> "exceedsRemaining",
          maxAllowedHours |-> usage.remainingHours]
    ELSE [isValid |-> TRUE, message |-> "ok",
          maxAllowedHours |-> usage.remainingHours]

----------------------------------------------------------------------------
(* The booking hook (hooks/useReservations.ts)                             *)

IdleHook ==
    [reservations |-> <<>>, loading |-> FALSE, error |-> "none",
     returned |-> "none"]

\* faulty variant: the final `throw` is missing, every signed-in user may read
canAccessUserData_anyUser(actor, lookupOk, targetUserId) ==
    IF ~getCurrentAuthUser(actor) THEN "SecurityError" ELSE "ok"

\* canAccessUserData
canAccessUserData(actor, lookupOk, targetUserId) ==
    IF ~getCurrentAuthUser(actor) THEN "SecurityError"
    ELSE IF actor = targetUserId THEN "ok"
    ELSE IF isCurrentUserAdmin(actor, lookupOk) THEN "ok"
    ELSE "SecurityError"

RECURSIVE InsertByDateDesc(_, _)
InsertByDateDesc(sorted, r) ==
    IF sorted = <<>> THEN <<r>>
    ELSE IF r.date > Head(sorted).date THEN <<r>> \o sorted
    ELSE <<Head(sorted)>> \o InsertByDateDesc(Tail(sorted), r)

RECURSIVE QueryByStudent(_, _, _)
\* where('studentId', '==', userId), orderBy('date', 'desc'); the document id
\* is added to each result
QueryByStudent(docs, userId, i) ==
    IF i > Len(docs) THEN <<>>
    ELSE IF docs[i].studentId = userId
    THEN InsertByDateDesc(QueryByStudent(docs, userId, i + 1),
                          Merge(docs[i], [id |-> i]))
    ELSE QueryByStudent(docs, userId, i + 1)

\* new Date("YYYY-MM-DD"): 00:00 UTC of that day
fromFirestore(dateString) == dateString * MinutesPerDay

\* Date.getMonth() / getFullYear() in a zone `tz` minutes east of UTC, as the
\* number of the month in a calendar of 30-day months
getMonth(date, tz) == ((date + tz) \div MinutesPerDay) \div 30

RECURSIVE calculateMonthlyUsage(_, _, _)
\* the hook's calculateMonthlyUsage over a list of reservations, in minutes
calculateMonthlyUsage(list, today, tz) ==
    IF list = <<>> THEN 0
    ELSE LET r == Head(list)
             counted == /\ getMonth(fromFirestore(r.date), tz) = getMonth(today, tz)
                        /\ r.status = "confirmed"
         IN (IF counted THEN calculateDuration(r.startTime, r.endTime) ELSE 0)
            + calculateMonthlyUsage(Tail(list), today, tz)

\* updatedCourseUsage: the course usage with the hours computed from the
\* reservations the hook holds
updatedCourseUsage(usage, monthlyUsedHours) ==
    IF ~usage.present THEN usage
    ELSE [usage EXCEPT !.usedHours = monthlyUsedHours,
                       !.remainingHours = usage.totalHours - monthlyUsedHours]

\* getUserReservations: "ok" with the list, or the error thrown
getUserReservations(actor, lookupOk, userId, docs, storeOk) ==
    LET r == executeWithSecurity(canAccessUserData(actor, lookupOk, userId))
    IN IF r.pc # "operation" THEN [error |-> r.error, list |-> <<>>]
       ELSE IF ~storeOk THEN [error |-> "Error", list |-> <<>>]
       ELSE [error |-> "none", list |-> QueryByStudent(docs, userId, 1)]

RECURSIVE QueryByDateAndTeacher(_, _, _, _)
\* where('date', '==', dateString), where('teacherId', '==', teacherId),
\* where('status', '==', 'confirmed'); the document id is added to each result
QueryByDateAndTeacher(docs, dateString, teacherId, i) ==
    IF i > Len(docs) THEN <<>>
    ELSE (IF /\ docs[i].date = dateString
             /\ docs[i].teacherId = teacherId
             /\ docs[i].status = "confirmed"
          THEN <<Merge(docs[i], [id |-> i])>> ELSE <<>>)
         \o QueryByDateAndTeacher(docs, dateString, teacherId, i + 1)

\* getReservationsByDateAndTeacher: the list, or the error thrown
getReservationsByDateAndTeacher(actor, lookupOk, date, teacherId, docs, storeOk) ==
    LET dateString == toFirestoreDateOnly(date)
        r == executeWithSecurity(requireStaffAccess(actor, lookupOk))
    IN IF r.pc # "operation" THEN [error |-> r.error, list |-> <<>>]
       ELSE IF ~storeOk THEN [error |-> "Error", list |-> <<>>]
       ELSE [error |-> "none",
             list |-> QueryByDateAndTeacher(docs, dateString, teacherId, 1)]

\* fetchReservations: the hook state after it ran on hook state h
fetchReservations(h, uid, lookupOk, docs, storeOk) ==
    IF uid = NoUser THEN h
    ELSE LET got == getUserReservations(uid, lookupOk, uid, docs, storeOk)
         IN IF got.error = "none"
            THEN [h EXCEPT !.reservations = got.list, !.error = "none",
                           !.loading = FALSE]
            ELSE [h EXCEPT !.error = "network", !.loading = FALSE]

\* faulty variant: the early `return false` after a failed validation is missing
createOutcome_ignoresValidation(uid, validation, check, storeOk) ==
    IF uid = NoUser THEN "permission"
    ELSE IF executeWithSecurity(check).pc # "operation" \/ ~storeOk THEN "network"
    ELSE "created"

\* what createNewReservation does, decided in the order of the code:
\* the sign-in guard, the quota validation, then the repository call
createOutcome(uid, validation, check, storeOk) ==
    IF uid = NoUser THEN "permission"
    ELSE IF ~validation.isValid THEN "validation"
    ELSE IF executeWithSecurity(check).pc # "operation" \/ ~storeOk THEN "network"
    ELSE "created"

\* useReservations.createNewReservation, the whole handler
createNewReservation(uid, profileLoaded, data, now, storeOk, fetchOk) ==
    LET lookupOk == TRUE   \* no role is looked up: studentId is the caller's uid
        info == currentCourseInfo(uid, profileLoaded)
        durationInHours == calculateDuration(data.startTime, data.endTime)
        validation == validateReservationTime(durationInHours, courseUsage(info), info)
        reservationData ==
            [studentId |-> uid, teacherId |-> "default-teacher",
             date |-> data.date, startTime |-> data.startTime,
             endTime |-> data.endTime, status |-> "confirmed"]
        outcome == createOutcome(uid, validation,
                       createSecurityCheck(uid, lookupOk, reservationData), storeOk)
        written == Append(reservations, convertToFirestore(reservationData, now))
    IN /\ Len(reservations) < MaxReservations
       /\ IF outcome = "created"
          THEN /\ reservations' = written
               /\ hook' = [fetchReservations([hook EXCEPT !.error = "none"],
                               uid, lookupOk, written, fetchOk)
                           EXCEPT !.returned = TRUE, !.loading = FALSE]
          ELSE /\ UNCHANGED reservations
               /\ hook' = [hook EXCEPT !.error = outcome, !.returned = FALSE,
                                       !.loading = FALSE]
       /\ UNCHANGED <<call, quota, app>>

\* useReservations.cancelReservation, the whole handler
cancelReservation(uid, lookupOk, reservationId, now, storeOk, fetchOk) ==
    LET statusData == [status |-> "cancelled"]
        r == executeWithSecurity(
                 statusSecurityCheck(uid, lookupOk, reservationId, statusData))
        written == [reservations EXCEPT ![reservationId] =
                       Merge(@, convertToFirestore(statusData, now))]
    IN /\ IF r.pc = "operation" /\ storeOk /\ Exists(reservationId)
          THEN /\ reservations' = written
               /\ hook' = [fetchReservations([hook EXCEPT !.error = "none"],
                               uid, lookupOk, written, fetchOk)
                           EXCEPT !.returned = TRUE, !.loading = FALSE]
          ELSE /\ UNCHANGED reservations
               /\ hook' = [hook EXCEPT !.error = "network", !.returned = FALSE,
                                       !.loading = FALSE]
       /\ UNCHANGED <<call, quota, app>>

----------------------------------------------------------------------------
(* Applying the quota validator to drawn inputs                            *)

QuotaIdle == [phase |-> "none"]

AppIdle == [phase |-> "none"]

QuotaRequests == { -60, 0, 30, 60, 120, 15 * 60, 16 * 60 }

QuotaUsages ==
    { NoCourse } \cup
    { [present |-> TRUE, usedHours |-> u * 60, totalHours |-> t * 60,
       remainingHours |-> (t - u) * 60] :
      t \in {15, 30, 45}, u \in {0, 14, 15, 16} }

Validate ==
    /\ quota.phase = "input"
    /\ quota' = [quota EXCEPT !.phase = "done",
                    !.result = validateReservationTime(quota.requestedHours,
                                   quota.usage, quota.usage)]
    /\ UNCHANGED <<reservations, call, hook, app>>

----------------------------------------------------------------------------
(* Applying the monthly usage of the hook to drawn reservation lists       *)

\* browser zones, in minutes east of UTC: New York, UTC, Tokyo
Zones == { -300, 0, 9 * 60 }

\* calendar days around the month that starts on day 30 and ends on day 59
UsageDays == { 29, 30, 59, 60 }

\* a reservation as the hook holds it after a fetch: date is the stored string
UsageRecords ==
    { [studentId |-> "s1", teacherId |-> "t1", date |-> d,
       startTime |-> <<9, 0>>, endTime |-> e, status |-> st] :
      d \in UsageDays, e \in { <<10, 0>>, <<11, 0>> }, st \in Statuses }

UsageLists ==
    { <<>> } \cup { <<r>> : r \in UsageRecords }
             \cup { <<r, q>> : r \in UsageRecords, q \in UsageRecords }

\* noon of day 45 on the wall clock of the browser
UsageToday(tz) == LocalMidnight(45, tz) + 12 * 60

\* one render of useReservations: monthlyUsedHours and updatedCourseUsage
ComputeUsage ==
    /\ app.phase = "input"
    /\ app.fn = "calculateMonthlyUsage"
    /\ app' = [app EXCEPT !.phase = "done",
                 !.result = updatedCourseUsage(
                                courseUsage(currentCourseInfo("s1", TRUE)),
                                calculateMonthlyUsage(app.list, app.today, app.tz))]
    /\ UNCHANGED <<reservations, call, hook, quota>>

----------------------------------------------------------------------------
(* Applying generateTimeSlots to drawn business hours and durations        *)

SlotOpens == { <<8, 0>>, <<9, 0>>, <<9, 30>>, <<10, 0>> }

SlotCloses == { <<9, 0>>, <<12, 0>>, <<17, 0>>, <<17, 30>>, <<18, 0>> }

\* durations whose `duration / 60` is exact in floating point
SlotDurations == { 30, 45, 60, 90, 120 }

GenerateSlots ==
    /\ app.phase = "input"
    /\ app.fn = "generateTimeSlots"
    /\ app' = [app EXCEPT !.phase = "done",
                 !.result = generateTimeSlots(app.businessHours, app.duration)]
    /\ UNCHANGED <<reservations, call, hook, quota>>

----------------------------------------------------------------------------
(* Applying isTimeOverlapping to drawn times                               *)

OverlapTimes == { <<9, 0>>, <<9, 30>>, <<10, 0>>, <<10, 30>>, <<11, 0>> }

CheckOverlap ==
    /\ app.phase = "input"
    /\ app.fn = "isTimeOverlapping"
    /\ app' = [app EXCEPT !.phase = "done",
                 !.result = isTimeOverlapping(app.slot1Start, app.slot1End,
                                              app.slot2Start, app.slot2End)]
    /\ UNCHANGED <<reservations, call, hook, quota>>

----------------------------------------------------------------------------
(* The slot picker (components/TimeSlotPicker.tsx)                         *)

\* selectedDate: Date | undefined is <<date>> or the empty sequence
NoDate == <<>>

\* isSameDay: the same calendar day on the wall clock of the browser
isSameDay(dateLeft, dateRight, tz) ==
    (dateLeft + tz) \div MinutesPerDay = (dateRight + tz) \div MinutesPerDay

\* dateReservations: the confirmed reservations of the selected day
dateReservations(selectedDate, existingReservations, tz) ==
    IF selectedDate = NoDate THEN <<>>
    ELSE SelectSeq(existingReservations,
             LAMBDA r : /\ r.status = "confirmed"
                        /\ isSameDay(fromFirestore(r.date), selectedDate[1], tz))

isTimeSlotBooked(timeSlot, dateRes) ==
    \E i \in 1..Len(dateRes) :
        isTimeOverlapping(timeSlot.startTime, timeSlot.endTime,
                          dateRes[i].startTime, dateRes[i].endTime)

\* the buttons the component renders: one per generated slot, disabled when
\* the slot is booked; without a selected date only a hint is rendered
TimeSlotPicker(selectedDate, existingReservations, tz) ==
    IF selectedDate = NoDate THEN <<>>
    ELSE LET availableTimeSlots ==
                 generateTimeSlots(DEFAULT_BUSINESS_HOURS, LESSON_DURATION)
             dateRes == dateReservations(selectedDate, existingReservations, tz)
         IN [i \in 1..Len(availableTimeSlots) |->
                [timeSlot |-> availableTimeSlots[i],
                 disabled |-> isTimeSlotBooked(availableTimeSlots[i], dateRes)]]

PickerRecords ==
    { [studentId |-> "s1", teacherId |-> t, date |-> d,
       startTime |-> sl[1], endTime |-> sl[2], status |-> st] :
      t \in {"t1", "t2"}, d \in {1, 2},
      sl \in { <<<<10, 0>>, <<11, 0>>>>, <<<<10, 30>>, <<11, 30>>>> },
      st \in {"confirmed", "cancelled"} }

PickerLists ==
    { <<>> } \cup { <<r>> : r \in PickerRecords }
             \cup { <<r, q>> : r \in PickerRecords, q \in PickerRecords }

\* the date picked in the calendar: 00:00 of day 1 on the browser's clock
PickerDates == { NoDate } \cup { <<LocalMidnight(1, tz)>> : tz \in Zones }

RenderPicker ==
    /\ app.phase = "input"
    /\ app.fn = "TimeSlotPicker"
    /\ app' = [app EXCEPT !.phase = "done",
                 !.result = TimeSlotPicker(app.selectedDate,
                                app.existingReservations, app.tz)]
    /\ UNCHANGED <<reservations, call, hook, quota>>

----------------------------------------------------------------------------
(* The booking form (SimpleBookingForm, components/TimeSlotPicker.tsx)     *)

\* onSubmit calls that may be pending at once
MaxSubmits == 1

\* selectedTimeSlot: TimeSlot | undefined is <<slot>> or the empty sequence
NoSlot == <<>>

\* the button's isSelected
isSelected(selectedTimeSlot, timeSlot) ==
    /\ selectedTimeSlot # NoSlot
    /\ selectedTimeSlot[1].startTime = timeSlot.startTime

\* faulty variant: the clicked slot is always handed on, selected or not
onTimeSlotClick_noToggle(selectedTimeSlot, timeSlot) ==
    <<timeSlot>>

\* the button's onClick: the value handed to onTimeSlotSelect
onTimeSlotClick(selectedTimeSlot, timeSlot) ==
    IF isSelected(selectedTimeSlot, timeSlot) THEN NoSlot ELSE <<timeSlot>>

\* handleSubmit up to its `await onSubmit(...)`: the form state it leaves.
\* Without a date or a slot it only shows a toast.
handleSubmit(form) ==
    IF form.selectedDate = NoDate \/ form.selectedTimeSlot = NoSlot THEN form
    ELSE [form EXCEPT !.submitting = TRUE,
                      !.onSubmit = Append(@,
                          [date |-> form.selectedDate[1],
                           startTime |-> form.selectedTimeSlot[1].startTime,
                           endTime |-> form.selectedTimeSlot[1].endTime])]

isFormValid(form) ==
    form.selectedDate # NoDate /\ form.selectedTimeSlot # NoSlot

\* the submit event may start one more onSubmit call
SubmitInBound(form) ==
    isFormValid(form) => Len(form.onSubmit) < MaxSubmits

\* the reservable days shown by the calendar
FormDays == { 1, 2 }

FormRecords ==
    { [studentId |-> "s2", teacherId |-> "t1", date |-> d,
       startTime |-> <<10, 0>>, endTime |-> <<11, 0>>, status |-> st] :
      d \in FormDays, st \in {"confirmed", "cancelled"} }

FormLists == { <<>> } \cup { <<r>> : r \in FormRecords }

\* CustomCalendar.handleDateClick on a reservable day; the cell is a <div>
handleDateClick(day) ==
    /\ app.phase = "form"
    /\ LET date == LocalMidnight(day, app.tz)
       IN app' = [app EXCEPT !.selectedDate =
                     IF app.selectedDate # NoDate
                        /\ isSameDay(app.selectedDate[1], date, app.tz)
                     THEN NoDate ELSE <<date>>]
    /\ UNCHANGED <<reservations, call, hook, quota>>

\* a click on the i-th slot button. A disabled button takes no click. The
\* button has no `type` and sits inside the <form>: after its onClick the
\* click submits the form, and handleSubmit runs on the updated state.
timeSlotClick(i) ==
    /\ app.phase = "form"
    /\ LET buttons == TimeSlotPicker(app.selectedDate, app.existingReservations, app.tz)
       IN /\ i \in 1..Len(buttons)
          /\ IF buttons[i].disabled THEN app' = app
             ELSE LET clicked == [app EXCEPT !.selectedTimeSlot =
                                     onTimeSlotClick(@, buttons[i].timeSlot)]
                  IN /\ SubmitInBound(clicked)
                     /\ app' = handleSubmit(clicked)
    /\ UNCHANGED <<reservations, call, hook, quota>>

\* the calendar's previous / next month buttons: no `type` either, so the
\* click submits the form
handleMonthClick ==
    /\ app.phase = "form"
    /\ SubmitInBound(app)
    /\ app' = handleSubmit(app)
    /\ UNCHANGED <<reservations, call, hook, quota>>

\* the submit button, disabled while the form is incomplete or busy
submitClick ==
    /\ app.phase = "form"
    /\ isFormValid(app) /\ ~app.submitting /\ ~app.loading
    /\ SubmitInBound(app)
    /\ app' = handleSubmit(app)
    /\ UNCHANGED <<reservations, call, hook, quota>>

\* the reset button
resetClick ==
    /\ app.phase = "form"
    /\ ~app.submitting /\ ~app.loading
    /\ app' = [app EXCEPT !.selectedDate = NoDate, !.selectedTimeSlot = NoSlot]
    /\ UNCHANGED <<reservations, call, hook, quota>>

\* handleSubmit after its await: onSubmit returned true or false, or threw
onSubmitSettled(outcome) ==
    /\ app.phase = "form"
    /\ app.onSubmit # <<>>
    /\ app' = [app EXCEPT
                 !.onSubmit = Tail(@),
                 !.submitting = FALSE,
                 !.selectedDate = IF outcome = "true" THEN NoDate ELSE @,
                 !.selectedTimeSlot = IF outcome = "true" THEN NoSlot ELSE @]
    /\ UNCHANGED <<reservations, call, hook, quota>>

\* the parent renders the form with other props
setFormProps(existingReservations, loading) ==
    /\ app.phase = "form"
    /\ app' = [app EXCEPT !.existingReservations = existingReservations,
                          !.loading = loading]
    /\ UNCHANGED <<reservations, call, hook, quota>>

----------------------------------------------------------------------------
(* The reservation store (stores/reservationStore.ts)                      *)
\* The store lives in `app`: the signed-in user of the auth store, the cached
\* lists, the flags, and the async actions that wait for the repository.

\* async store actions that may wait at once
MaxTasks == 2

Tasks == 1..MaxTasks

IdleTask ==
    [pc |-> "idle", op |-> "none", caller |-> "none", actor |-> NoUser,
     checked |-> "none", userId |-> NoUser, id |-> 0, data |-> NoData]

\* the store right after construction, nobody signed in
IdleStore ==
    [phase |-> "store", fn |-> "reservationStore", user |-> NoUser,
     reservations |-> <<>>, selectedReservation |-> <<>>,
     teacherReservations |-> <<>>, loading |-> FALSE, error |-> "none",
     tasks |-> [k \in Tasks |-> IdleTask]]

InFlight(store) == { k \in Tasks : store.tasks[k].pc # "idle" }

HasFreeTask(store) == InFlight(store) # Tasks

FreeTask(store) == CHOOSE k \in Tasks \ InFlight(store) :
                       \A j \in Tasks \ InFlight(store) : k <= j

\* an action up to its await: loading on, error cleared, the call under way;
\* the repository runs its security check against the user signed in now
StartTask(store, k, op, caller, checked, userId, id, data) ==
    [store EXCEPT !.loading = TRUE, !.error = "none",
                  !.tasks[k] = [pc |-> "await", op |-> op, caller |-> caller,
                                actor |-> store.user, checked |-> checked,
                                userId |-> userId, id |-> id, data |-> data]]

\* the `finally` of an action: loading off, the action is over
FinishTask(store, k) ==
    [store EXCEPT !.loading = FALSE, !.tasks[k] = IdleTask]

\* fetchUserReservations(userId) up to its await, run for `caller`; without a
\* target user it sets the error, empties the list and returns
beginFetchUserReservations(store, k, userId, caller) ==
    LET targetUserId == IF userId # NoUser THEN userId ELSE store.user
    IN IF targetUserId = NoUser
       THEN [store EXCEPT !.error = "failed", !.reservations = <<>>]
       ELSE StartTask(store, k, "fetchUserReservations", caller,
                canAccessUserData(store.user, TRUE, targetUserId),
                targetUserId, 0, NoData)

\* refreshReservations called by a mutation that holds task k: it either
\* waits for the fetch or, without a user, returns and the mutation ends
refreshReservations(store, k, caller) ==
    LET begun == beginFetchUserReservations(store, k, NoUser, caller)
    IN IF store.user = NoUser THEN FinishTask(begun, k) ELSE begun

\* the `catch` of an action: the error is kept (and thrown on)
FailTask(store, k) ==
    FinishTask([store EXCEPT !.error = "failed"], k)

\* updateReservationData patches the cached copies: {...reservation, ...updates}
PatchById(list, reservationId, updates) ==
    [i \in 1..Len(list) |->
        IF list[i].id = reservationId THEN Merge(list[i], updates) ELSE list[i]]

StoreUsers == { "s1", "t1" }

\* the collection when the page is opened
StoreCollections ==
    { <<>>,
      <<[studentId |-> "s1", teacherId |-> "t1", date |-> 1,
         startTime |-> <<9, 0>>, endTime |-> <<10, 0>>, status |-> "confirmed",
         createdAt |-> 0, updatedAt |-> 0]>> }

StoreCreateData ==
    { [studentId |-> "s1", teacherId |-> "t1", date |-> LocalMidnight(1, 0),
       startTime |-> <<10, 0>>, endTime |-> <<11, 0>>, status |-> "confirmed"] }

StoreUpdateData == { [studentId |-> "s2"] }

\* the reservation the tab's mutations are aimed at
StoreDocIds == { 1 }

\* the client clock at the writes of this tab, after the stored createdAt
StoreClock == { 1 }

\* the auth store gets a user: the subscription fetches that user's list
signIn(uid) ==
    /\ app.phase = "store"
    /\ app.user = NoUser
    /\ HasFreeTask(app)
    /\ app' = beginFetchUserReservations([app EXCEPT !.user = uid],
                  FreeTask(app), uid, "none")
    /\ UNCHANGED <<reservations, call, hook, quota>>

\* the auth store loses its user: the subscription empties the store
signOut ==
    /\ app.phase = "store"
    /\ app.user # NoUser
    /\ app' = [app EXCEPT !.user = NoUser, !.reservations = <<>>,
                          !.selectedReservation = <<>>,
                          !.teacherReservations = <<>>, !.error = "none"]
    /\ UNCHANGED <<reservations, call, hook, quota>>

setSelectedReservation(i) ==
    /\ app.phase = "store"
    /\ i \in 0..Len(app.reservations)
    /\ app' = [app EXCEPT !.selectedReservation =
                  IF i = 0 THEN <<>> ELSE <<app.reservations[i]>>]
    /\ UNCHANGED <<reservations, call, hook, quota>>

fetchUserReservations(userId) ==
    /\ app.phase = "store"
    /\ HasFreeTask(app)
    /\ app' = beginFetchUserReservations(app, FreeTask(app), userId, "none")
    /\ UNCHANGED <<reservations, call, hook, quota>>

storeCreateNewReservation(reservationData) ==
    /\ app.phase = "store"
    /\ HasFreeTask(app)
    /\ app' = StartTask(app, FreeTask(app), "createNewReservation", "none",
                  createSecurityCheck(app.user, TRUE, reservationData),
                  NoUser, 0, reservationData)
    /\ UNCHANGED <<reservations, call, hook, quota>>

updateReservationData(reservationId, updates) ==
    /\ app.phase = "store"
    /\ HasFreeTask(app)
    /\ app' = StartTask(app, FreeTask(app), "updateReservationData", "none",
                  updateSecurityCheck(app.user, TRUE, reservationId, updates),
                  NoUser, reservationId, updates)
    /\ UNCHANGED <<reservations, call, hook, quota>>

\* cancelReservation is this action with status 'cancelled'
updateReservationStatusData(reservationId, statusData) ==
    /\ app.phase = "store"
    /\ HasFreeTask(app)
    /\ app' = StartTask(app, FreeTask(app), "updateReservationStatusData", "none",
                  statusSecurityCheck(app.user, TRUE, reservationId, statusData),
                  NoUser, reservationId, statusData)
    /\ UNCHANGED <<reservations, call, hook, quota>>

updateReservationTimeData(reservationId, timeData) ==
    /\ app.phase = "store"
    /\ HasFreeTask(app)
    /\ app' = StartTask(app, FreeTask(app), "updateReservationTimeData", "none",
                  timeSecurityCheck(app.user, TRUE, reservationId, timeData),
                  NoUser, reservationId, timeData)
    /\ UNCHANGED <<reservations, call, hook, quota>>

fetchReservationsByDateAndTeacher(date, teacherId) ==
    /\ app.phase = "store"
    /\ HasFreeTask(app)
    /\ app' = StartTask(app, FreeTask(app), "fetchReservationsByDateAndTeacher",
                  "none", requireStaffAccess(app.user, TRUE),
                  teacherId, 0, [date |-> date])
    /\ UNCHANGED <<reservations, call, hook, quota>>

\* the awaited repository call of task k settles; the action runs to its end
\* or, after a mutation, to the await of the re-fetch
settleTask(k, storeOk, now) ==
    /\ app.phase = "store"
    /\ app.tasks[k].pc = "await"
    /\ LET t == app.tasks[k]
           passed == executeWithSecurity(t.checked).pc = "operation" /\ storeOk
       IN CASE t.op = "fetchUserReservations" ->
                 /\ app' = FinishTask(
                        IF passed
                        THEN [app EXCEPT !.reservations =
                                 QueryByStudent(reservations, t.userId, 1)]
                        ELSE [app EXCEPT !.error = "failed", !.reservations = <<>>],
                        k)
                 /\ UNCHANGED reservations
            [] t.op = "fetchReservationsByDateAndTeacher" ->
                 /\ app' = FinishTask(
                        IF passed
                        THEN [app EXCEPT !.teacherReservations =
                                 QueryByDateAndTeacher(reservations,
                                     toFirestoreDateOnly(t.data.date), t.userId, 1)]
                        ELSE [app EXCEPT !.error = "failed",
                                         !.teacherReservations = <<>>],
                        k)
                 /\ UNCHANGED reservations
            [] t.op = "createNewReservation" ->
                 IF passed /\ Len(reservations) < MaxReservations
                 THEN /\ reservations' =
                           Append(reservations, convertToFirestore(t.data, now))
                      /\ app' = refreshReservations(app, k, t.op)
                 ELSE /\ app' = FailTask(app, k)
                      /\ UNCHANGED reservations
            [] t.op = "updateReservationData" ->
                 IF passed /\ Exists(t.id)
                 THEN /\ reservations' = [reservations EXCEPT ![t.id] =
                               Merge(@, convertToFirestore(t.data, now))]
                      /\ LET updates == Merge(t.data, [updatedAt |-> now])
                         IN app' = FinishTask(
                                [app EXCEPT
                                   !.reservations = PatchById(@, t.id, updates),
                                   !.selectedReservation =
                                       PatchById(@, t.id, updates)],
                                k)
                 ELSE /\ app' = FailTask(app, k)
                      /\ UNCHANGED reservations
            [] t.op \in {"updateReservationStatusData", "updateReservationTimeData"} ->
                 IF passed /\ Exists(t.id)
                 THEN /\ reservations' = [reservations EXCEPT ![t.id] =
                               Merge(@, convertToFirestore(t.data, now))]
                      /\ app' = refreshReservations(app, k, t.op)
                 ELSE /\ app' = FailTask(app, k)
                      /\ UNCHANGED reservations
    /\ UNCHANGED <<call, hook, quota>>

----------------------------------------------------------------------------
(* Listing the reservations of a user over drawn collections               *)

\* documents of the collection as create and update leave them
ListRecords ==
    { [studentId |-> u, teacherId |-> "t1", date |-> d,
       startTime |-> <<9, 0>>, endTime |-> <<10, 0>>, status |-> st,
       createdAt |-> 0, updatedAt |-> 0] :
      u \in {"s1", "s2"}, d \in {1, 2, 3}, st \in Statuses }

ListCollections ==
    { <<>> } \cup { <<r>> : r \in ListRecords }
             \cup { <<r, q>> : r \in ListRecords, q \in ListRecords }

ListUsers == { "s1", "s2" }

\* one call of the repository's getUserReservations
listReservations(actor, lookupOk, userId, storeOk) ==
    /\ app.phase = "input"
    /\ app.fn = "getUserReservations"
    /\ app' = [phase |-> "done", fn |-> "getUserReservations",
               actor |-> actor, lookupOk |-> lookupOk, userId |-> userId,
               storeOk |-> storeOk,
               result |-> getUserReservations(actor, lookupOk, userId,
                                              reservations, storeOk)]
    /\ UNCHANGED <<reservations, call, hook, quota>>

----------------------------------------------------------------------------
(* Listing the reservations of a teacher on a date                         *)

TeacherIds == { "t1", "t2" }

TeacherListRecords ==
    { [studentId |-> "s1", teacherId |-> t, date |-> d,
       startTime |-> <<9, 0>>, endTime |-> <<10, 0>>, status |-> st,
       createdAt |-> 0, updatedAt |-> 0] :
      t \in TeacherIds, d \in {0, 1}, st \in Statuses }

TeacherListCollections ==
    { <<>> } \cup { <<r>> : r \in TeacherListRecords }
             \cup { <<r, q>> : r \in TeacherListRecords, q \in TeacherListRecords }

\* the date asked for: 00:00 of day 1 on the clock of the asking browser
TeacherListDates == { LocalMidnight(1, tz) : tz \in Zones }

\* one call of the repository's getReservationsByDateAndTeacher
listForTeacherOnDate(actor, lookupOk, date, teacherId, storeOk) ==
    /\ app.phase = "input"
    /\ app.fn = "getReservationsByDateAndTeacher"
    /\ app' = [phase |-> "done", fn |-> "getReservationsByDateAndTeacher",
               actor |-> actor, lookupOk |-> lookupOk, date |-> date,
               teacherId |-> teacherId, storeOk |-> storeOk,
               result |-> getReservationsByDateAndTeacher(actor, lookupOk, date,
                              teacherId, reservations, storeOk)]
    /\ UNCHANGED <<reservations, call, hook, quota>>

----------------------------------------------------------------------------
(* The operations gated by a role                                          *)

GateCollections == { <<>> } \cup { <<r>> : r \in TeacherListRecords }

GateFunctions == { "getUserReservations", "getReservationsByDateAndTeacher" }

----------------------------------------------------------------------------
(* Inputs                                                                  *)

DocIds == 1..MaxReservations

Slots == { <<<<9, 0>>, <<10, 0>>>>, <<<<10, 0>>, <<11, 0>>>> }

RepoDates == { LocalMidnight(1, 0) }

\* reservationData: Omit<Reservation, 'id' | 'createdAt' | 'updatedAt'>, the
\* status is the caller's
RepoCreateData ==
    { [studentId |-> "s1", teacherId |-> "t1", date |-> d,
       startTime |-> sl[1], endTime |-> sl[2], status |-> st] :
      d \in RepoDates, sl \in Slots, st \in {"confirmed", "cancelled"} }

StatusData == { [status |-> st] : st \in Statuses }

\* timeData: any two "HH:mm" strings, here the slots and a pair that is off
\* the hour and ends before it starts
TimeData ==
    { [startTime |-> sl[1], endTime |-> sl[2]] : sl \in Slots }
    \cup { [startTime |-> <<10, 30>>, endTime |-> <<10, 0>>] }

UpdateData == { [status |-> "confirmed"] }

\* the authorization specification: one slot, one clock value, and update
\* payloads that carry ids other than the stored ones
AuthClock == { 0 }

AuthCreateData ==
    { [studentId |-> "s1", teacherId |-> "t1", date |-> d,
       startTime |-> <<9, 0>>, endTime |-> <<10, 0>>, status |-> "confirmed"] :
      d \in RepoDates }

AuthTimeData == { [startTime |-> <<10, 0>>, endTime |-> <<11, 0>>] }

AuthStatusData == { [status |-> "cancelled"] }

AuthUpdateData ==
    { [status |-> "cancelled"],
      [studentId |-> "s2", teacherId |-> "s2"] }

\* the hook specification
HookUsers == { "s1", NoUser }

TimePoints == { <<0, 0>>, <<9, 0>>, <<18, 0>> }

HookClock == { 0 }

\* the date picked in the calendar: 00:00 of the day on the browser's clock
HookDays == { 1 }

HookDates == { LocalMidnight(day, tz) : day \in HookDays, tz \in Zones }

HookData ==
    { [date |-> d, startTime |-> a, endTime |-> b] :
      d \in HookDates, a \in TimePoints, b \in TimePoints }

----------------------------------------------------------------------------
(* Specifications                                                          *)

Init ==
    /\ reservations = <<>>
    /\ call = [s \in Sessions |-> IdleCall]
    /\ hook = IdleHook
    /\ quota = QuotaIdle
    /\ app = AppIdle

\* the repository under two concurrent sessions
Next ==
    \/ \E s \in Sessions, actor \in Actors, lookupOk \in BOOLEAN, d \in RepoCreateData :
          createReservation(s, actor, lookupOk, d)
    \/ \E s \in Sessions, actor \in Actors, lookupOk \in BOOLEAN, id \in DocIds, d \in UpdateData :
          updateReservation(s, actor, lookupOk, id, d)
    \/ \E s \in Sessions, actor \in Actors, lookupOk \in BOOLEAN, id \in DocIds, d \in StatusData :
          updateReservationStatus(s, actor, lookupOk, id, d)
    \/ \E s \in Sessions, actor \in Actors, lookupOk \in BOOLEAN, id \in DocIds, d \in TimeData :
          updateReservationTime(s, actor, lookupOk, id, d)
    \/ \E s \in Sessions, now \in Clock : addDoc(s, now)
    \/ \E s \in Sessions, now \in Clock : updateDoc(s, now)
    \/ \E s \in Sessions : storeFailure(s)
    \/ \E s \in Sessions : throwToCaller(s)

Spec == Init /\ [][Next]_vars

\* the same repository, with the inputs of the authorization claims
AuthNext ==
    \/ \E s \in Sessions, actor \in Actors, lookupOk \in BOOLEAN, d \in AuthCreateData :
          createReservation(s, actor, lookupOk, d)
    \/ \E s \in Sessions, actor \in Actors, lookupOk \in BOOLEAN, id \in DocIds, d \in AuthUpdateData :
          updateReservation(s, actor, lookupOk, id, d)
    \/ \E s \in Sessions, actor \in Actors, lookupOk \in BOOLEAN, id \in DocIds, d \in AuthStatusData :
          updateReservationStatus(s, actor, lookupOk, id, d)
    \/ \E s \in Sessions, actor \in Actors, lookupOk \in BOOLEAN, id \in DocIds, d \in AuthTimeData :
          updateReservationTime(s, actor, lookupOk, id, d)
    \/ \E s \in Sessions, now \in AuthClock : addDoc(s, now)
    \/ \E s \in Sessions, now \in AuthClock : updateDoc(s, now)
    \/ \E s \in Sessions : storeFailure(s)
    \/ \E s \in Sessions : throwToCaller(s)

SpecAuth == Init /\ [][AuthNext]_vars

\* one browser that books and cancels through the hook
HookNext ==
    \/ \E uid \in HookUsers, profileLoaded \in BOOLEAN,
          data \in HookData, now \in HookClock, storeOk \in BOOLEAN, fetchOk \in BOOLEAN :
          createNewReservation(uid, profileLoaded, data, now, storeOk, fetchOk)
    \/ \E uid \in HookUsers, lookupOk \in BOOLEAN, id \in DocIds,
          now \in HookClock, storeOk \in BOOLEAN, fetchOk \in BOOLEAN :
          cancelReservation(uid, lookupOk, id, now, storeOk, fetchOk)

SpecHook == Init /\ [][HookNext]_vars

\* the quota validator applied to drawn inputs
QuotaInit ==
    /\ reservations = <<>>
    /\ call = [s \in Sessions |-> IdleCall]
    /\ hook = IdleHook
    /\ app = AppIdle
    /\ quota \in { [phase |-> "input", requestedHours |-> r, usage |-> u,
                    result |-> [isValid |-> FALSE, message |-> "none",
                                maxAllowedHours |-> 0]] :
                   r \in QuotaRequests, u \in QuotaUsages }

QuotaNext == Validate

SpecQuota == QuotaInit /\ [][QuotaNext]_vars

\* the monthly usage applied to drawn reservation lists, zones and dates
UsageInit ==
    /\ reservations = <<>>
    /\ call = [s \in Sessions |-> IdleCall]
    /\ hook = IdleHook
    /\ quota = QuotaIdle
    /\ app \in { [phase |-> "input", fn |-> "calculateMonthlyUsage",
                  list |-> l, today |-> UsageToday(tz), tz |-> tz,
                  result |-> NoCourse] :
                 l \in UsageLists, tz \in Zones }

UsageNext == ComputeUsage

SpecUsage == UsageInit /\ [][UsageNext]_vars

\* generateTimeSlots applied to drawn business hours and durations
SlotsInit ==
    /\ reservations = <<>>
    /\ call = [s \in Sessions |-> IdleCall]
    /\ hook = IdleHook
    /\ quota = QuotaIdle
    /\ app \in { [phase |-> "input", fn |-> "generateTimeSlots",
                  businessHours |-> [open |-> o, close |-> c],
                  duration |-> d, result |-> <<>>] :
                 o \in SlotOpens, c \in SlotCloses, d \in SlotDurations }

SlotsNext == GenerateSlots

SpecSlots == SlotsInit /\ [][SlotsNext]_vars

\* isTimeOverlapping applied to drawn times
OverlapInit ==
    /\ reservations = <<>>
    /\ call = [s \in Sessions |-> IdleCall]
    /\ hook = IdleHook
    /\ quota = QuotaIdle
    /\ app \in { [phase |-> "input", fn |-> "isTimeOverlapping",
                  slot1Start |-> a, slot1End |-> b,
                  slot2Start |-> c, slot2End |-> d, result |-> FALSE] :
                 a \in OverlapTimes, b \in OverlapTimes,
                 c \in OverlapTimes, d \in OverlapTimes }

OverlapNext == CheckOverlap

SpecOverlap == OverlapInit /\ [][OverlapNext]_vars

\* the slot picker rendered with drawn props
PickerInit ==
    /\ reservations = <<>>
    /\ call = [s \in Sessions |-> IdleCall]
    /\ hook = IdleHook
    /\ quota = QuotaIdle
    /\ app \in { [phase |-> "input", fn |-> "TimeSlotPicker",
                  selectedDate |-> d, existingReservations |-> l, tz |-> tz,
                  result |-> <<>>] :
                 d \in PickerDates, l \in PickerLists, tz \in Zones }
    /\ app.selectedDate # NoDate => app.selectedDate = <<LocalMidnight(1, app.tz)>>

PickerNext == RenderPicker

SpecPicker == PickerInit /\ [][PickerNext]_vars

\* getUserReservations called by drawn actors on drawn collections
ListInit ==
    /\ reservations \in ListCollections
    /\ call = [s \in Sessions |-> IdleCall]
    /\ hook = IdleHook
    /\ quota = QuotaIdle
    /\ app = [phase |-> "input", fn |-> "getUserReservations"]

ListNext ==
    \E actor \in Actors, lookupOk \in BOOLEAN, userId \in ListUsers, storeOk \in BOOLEAN :
        listReservations(actor, lookupOk, userId, storeOk)

SpecList == ListInit /\ [][ListNext]_vars

\* getReservationsByDateAndTeacher called by drawn actors on drawn collections
TeacherListInit ==
    /\ reservations \in TeacherListCollections
    /\ call = [s \in Sessions |-> IdleCall]
    /\ hook = IdleHook
    /\ quota = QuotaIdle
    /\ app = [phase |-> "input", fn |-> "getReservationsByDateAndTeacher"]

TeacherListNext ==
    \E actor \in Actors, lookupOk \in BOOLEAN, date \in TeacherListDates,
       teacherId \in TeacherIds, storeOk \in BOOLEAN :
        listForTeacherOnDate(actor, lookupOk, date, teacherId, storeOk)

SpecTeacherList == TeacherListInit /\ [][TeacherListNext]_vars

\* the repository called by everyone but the administrator
NonAdminActors == { a \in Actors : a = NoUser \/ users[a].role # "admin" }

OwnerNext ==
    \/ \E s \in Sessions, actor \in NonAdminActors, lookupOk \in BOOLEAN, d \in AuthCreateData :
          createReservation(s, actor, lookupOk, d)
    \/ \E s \in Sessions, actor \in NonAdminActors, lookupOk \in BOOLEAN, id \in DocIds, d \in AuthUpdateData :
          updateReservation(s, actor, lookupOk, id, d)
    \/ \E s \in Sessions, actor \in NonAdminActors, lookupOk \in BOOLEAN, id \in DocIds, d \in AuthStatusData :
          updateReservationStatus(s, actor, lookupOk, id, d)
    \/ \E s \in Sessions, actor \in NonAdminActors, lookupOk \in BOOLEAN, id \in DocIds, d \in AuthTimeData :
          updateReservationTime(s, actor, lookupOk, id, d)
    \/ \E s \in Sessions, now \in AuthClock : addDoc(s, now)
    \/ \E s \in Sessions, now \in AuthClock : updateDoc(s, now)
    \/ \E s \in Sessions : storeFailure(s)
    \/ \E s \in Sessions : throwToCaller(s)

SpecOwner == Init /\ [][OwnerNext]_vars

\* the role-gated operations: creating, listing a user's reservations and
\* listing a teacher's day, with the lookup of the user record failing or not
GateInit ==
    /\ reservations \in GateCollections
    /\ call = [s \in Sessions |-> IdleCall]
    /\ hook = IdleHook
    /\ quota = QuotaIdle
    /\ \E fn \in GateFunctions : app = [phase |-> "input", fn |-> fn]

GateNext ==
    \/ \E s \in Sessions, actor \in Actors, lookupOk \in BOOLEAN, d \in AuthCreateData :
          createReservation(s, actor, lookupOk, d)
    \/ \E s \in Sessions, now \in AuthClock : addDoc(s, now)
    \/ \E s \in Sessions : storeFailure(s)
    \/ \E s \in Sessions : throwToCaller(s)
    \/ \E actor \in Actors, lookupOk \in BOOLEAN, userId \in ListUsers, storeOk \in BOOLEAN :
          listReservations(actor, lookupOk, userId, storeOk)
    \/ \E actor \in Actors, lookupOk \in BOOLEAN, date \in TeacherListDates,
          teacherId \in TeacherIds, storeOk \in BOOLEAN :
          listForTeacherOnDate(actor, lookupOk, date, teacherId, storeOk)

SpecGate == GateInit /\ [][GateNext]_vars

\* the booking form, freshly mounted
FormInit ==
    /\ reservations = <<>>
    /\ call = [s \in Sessions |-> IdleCall]
    /\ hook = IdleHook
    /\ quota = QuotaIdle
    /\ \E tz \in Zones, l \in FormLists :
          app = [phase |-> "form", fn |-> "SimpleBookingForm", tz |-> tz,
                 existingReservations |-> l, loading |-> FALSE,
                 selectedDate |-> NoDate, selectedTimeSlot |-> NoSlot,
                 submitting |-> FALSE, onSubmit |-> <<>>]

FormNext ==
    \/ \E day \in FormDays : handleDateClick(day)
    \/ \E i \in 1..Len(generateTimeSlots(DEFAULT_BUSINESS_HOURS, LESSON_DURATION)) :
          timeSlotClick(i)
    \/ handleMonthClick
    \/ submitClick
    \/ resetClick
    \/ \E outcome \in {"true", "false", "throw"} : onSubmitSettled(outcome)
    \/ \E l \in FormLists, loading \in BOOLEAN : setFormProps(l, loading)

SpecForm == FormInit /\ [][FormNext]_vars

\* one browser tab working through the reservation store
StoreInit ==
    /\ reservations \in StoreCollections
    /\ call = [s \in Sessions |-> IdleCall]
    /\ hook = IdleHook
    /\ quota = QuotaIdle
    /\ app = IdleStore

StoreNext ==
    \/ \E uid \in StoreUsers : signIn(uid)
    \/ signOut
    \/ \E i \in {0, 1} : setSelectedReservation(i)
    \/ \E userId \in {NoUser, "s1"} : fetchUserReservations(userId)
    \/ \E d \in StoreCreateData : storeCreateNewReservation(d)
    \/ \E id \in StoreDocIds, d \in StoreUpdateData : updateReservationData(id, d)
    \/ \E id \in StoreDocIds, d \in AuthStatusData : updateReservationStatusData(id, d)
    \/ \E id \in StoreDocIds, d \in AuthTimeData : updateReservationTimeData(id, d)
    \/ fetchReservationsByDateAndTeacher(LocalMidnight(1, 0), "t1")
    \/ \E k \in Tasks, storeOk \in BOOLEAN, now \in StoreClock : settleTask(k, storeOk, now)

SpecStore == StoreInit /\ [][StoreNext]_vars

----------------------------------------------------------------------------
(* Claims                                                                  *)

\* C1: no two confirmed reservations of the same teacher on the same date
\* have overlapping [startTime, endTime) intervals, in any reachable state of
\* the collection under concurrent create / update calls.
C1_NoDoubleBooking ==
    \A i \in 1..Len(reservations), j \in 1..Len(reservations) :
        ( /\ i < j
          /\ reservations[i].teacherId = reservations[j].teacherId
          /\ reservations[i].date = reservations[j].date
          /\ reservations[i].status = "confirmed"
          /\ reservations[j].status = "confirmed" )
        => ~isTimeOverlapping(reservations[i].startTime, reservations[i].endTime,
                              reservations[j].startTime, reservations[j].endTime)

\* C2: the status of a stored reservation changes only from confirmed to
\* cancelled or from confirmed to completed; cancelled and completed are
\* terminal.
C2_StatusMonotone ==
    [][ \A i \in 1..Len(reservations) :
          reservations'[i].status # reservations[i].status
          => /\ reservations[i].status = "confirmed"
             /\ reservations'[i].status \in {"cancelled", "completed"} ]_vars

\* C3: a cancel (or a status update to completed) of a reservation that is
\* already cancelled fails with an InvalidStateError and leaves the stored
\* record, updatedAt included, unchanged.
C3_CancelOfCancelledRejected ==
    [][ \A s \in Sessions :
          ( /\ call[s].pc = "operation"
            /\ call[s].op = "updateReservationStatus"
            /\ call[s].data.status \in {"cancelled", "completed"}
            /\ Exists(call[s].id)
            /\ reservations[call[s].id].status = "cancelled"
            /\ call'[s] # call[s] )
          => /\ reservations' = reservations
             /\ call'[s].pc = "rejected"
             /\ call'[s].error = "InvalidStateError" ]_vars

\* C4: cancel passes authorization exactly when the actor is the
\* reservation's student, its teacher or an admin; for any other actor it
\* fails with a SecurityError (permission kind) and the stored record is
\* unchanged, also when the rejection reaches the caller.
C4_CancelAuthorization ==
    [][ /\ \A s \in Sessions, actor \in Actors, lookupOk \in BOOLEAN, id \in DocIds :
             ( /\ Exists(id)
               /\ call[s].pc = "idle"
               /\ call'[s].op = "updateReservationStatus"
               /\ updateReservationStatus(s, actor, lookupOk, id, [status |-> "cancelled"]) )
             => LET rec == reservations[id]
                    may == /\ actor # NoUser
                           /\ \/ actor = rec.studentId
                              \/ actor = rec.teacherId
                              \/ (lookupOk /\ users[actor].role = "admin")
                IN /\ (call'[s].pc = "operation") <=> may
                   /\ ~may => /\ call'[s].pc = "rejected"
                              /\ call'[s].error = "SecurityError"
                              /\ reservations' = reservations
        /\ \A s \in Sessions :
             (call[s].pc = "rejected" /\ call'[s] # call[s])
             => reservations' = reservations ]_vars

\* C4 witness: a cancel was refused with a SecurityError while a reservation
\* is stored
C4_Witness ==
    \E s \in Sessions :
        /\ call[s].pc = "rejected"
        /\ call[s].op = "updateReservationStatus"
        /\ call[s].error = "SecurityError"
        /\ Len(reservations) > 0

\* C5: createReservation passes its check only when the signed-in actor is
\* the record's studentId or an admin; every other actor, an unauthenticated
\* one included, gets a SecurityError and the collection is unchanged; a
\* record is appended only by a create call whose check passed.
C5_CreateAuthorization ==
    [][ /\ \A s \in Sessions, actor \in Actors, lookupOk \in BOOLEAN, d \in AuthCreateData :
             ( /\ call[s].pc = "idle"
               /\ call'[s].op = "createReservation"
               /\ createReservation(s, actor, lookupOk, d) )
             => LET may == /\ actor # NoUser
                           /\ \/ actor = d.studentId
                              \/ (lookupOk /\ users[actor].role = "admin")
                IN /\ (call'[s].pc = "operation") <=> may
                   /\ ~may => /\ call'[s].pc = "rejected"
                              /\ call'[s].error = "SecurityError"
                              /\ reservations' = reservations
        /\ Len(reservations') > Len(reservations)
             => \E s \in Sessions :
                   /\ call[s].pc = "operation"
                   /\ call[s].op = "createReservation"
                   /\ call[s].checked = "passed"
                   /\ call'[s].pc = "idle"
                   /\ reservations'[Len(reservations')].studentId = call[s].data.studentId ]_vars

\* C5 witness: a create was refused with a SecurityError
C5_Witness ==
    \E s \in Sessions :
        /\ call[s].pc = "rejected"
        /\ call[s].op = "createReservation"
        /\ call[s].error = "SecurityError"

\* C6: the store write of a call is issued only after that call's security
\* check has completed successfully: no call waits to run its operation with
\* a check that did not pass, and every change of the collection is the step
\* of a call whose check passed.
C6_WriteOnlyAfterCheck ==
    /\ [](\A s \in Sessions : call[s].pc = "operation" => call[s].checked = "passed")
    /\ [][ reservations' # reservations
           => \E s \in Sessions :
                 /\ call[s].pc = "operation"
                 /\ call[s].checked = "passed"
                 /\ call'[s].pc = "idle" ]_vars

\* C6 witness: an update call has passed its check and is about to write,
\* while another call was refused
C6_Witness ==
    \E s \in Sessions, t \in Sessions :
        /\ call[s].pc = "operation"
        /\ call[s].op \in {"updateReservation", "updateReservationStatus",
                           "updateReservationTime"}
        /\ call[s].checked = "passed"
        /\ call[t].pc = "rejected"
        /\ call[t].checked = "failed"

\* C7: the allow / deny decision of the three update operations does not
\* depend on the update payload: a call taken with one payload gets the
\* decision the same actor would get on the same stored record with any
\* other payload.
C7_DecisionIgnoresPayload ==
    [][ \A s \in Sessions :
          (call[s].pc = "idle" /\ call'[s].pc # "idle") =>
          \A actor \in Actors, lookupOk \in BOOLEAN, id \in DocIds :
          LET payloads == AuthUpdateData \cup AuthStatusData \cup AuthTimeData
              allowed == call'[s].pc = "operation"
          IN /\ \A u1 \in AuthUpdateData :
                  ( /\ call'[s].op = "updateReservation"
                    /\ updateReservation(s, actor, lookupOk, id, u1) )
                  => \A u2 \in payloads :
                        allowed <=> (updateSecurityCheck(actor, lookupOk, id, u2) = "ok")
             /\ \A u1 \in AuthStatusData :
                  ( /\ call'[s].op = "updateReservationStatus"
                    /\ updateReservationStatus(s, actor, lookupOk, id, u1) )
                  => \A u2 \in payloads :
                        allowed <=> (statusSecurityCheck(actor, lookupOk, id, u2) = "ok")
             /\ \A u1 \in AuthTimeData :
                  ( /\ call'[s].op = "updateReservationTime"
                    /\ updateReservationTime(s, actor, lookupOk, id, u1) )
                  => \A u2 \in payloads :
                        allowed <=> (timeSecurityCheck(actor, lookupOk, id, u2) = "ok") ]_vars

\* C7 witness: an update whose payload carries a studentId other than the
\* stored one has been decided (and allowed) on the stored ids
C7_Witness ==
    \E s \in Sessions :
        /\ call[s].pc = "operation"
        /\ call[s].op = "updateReservation"
        /\ "studentId" \in DOMAIN call[s].data
        /\ Exists(call[s].id)
        /\ call[s].data.studentId # reservations[call[s].id].studentId

\* the instant the hook reads as `new Date()`, and the zone of the browser
Today == LocalMidnight(1, 0) + 9 * 60

\* C8: the confirmed reservations of a student dated in the current month
\* never add up to more than the monthlyHours of the student's plan.
C8_QuotaNeverExceeded ==
    \A uid \in Uids :
        calculateMonthlyUsage(QueryByStudent(reservations, uid, 1), Today, 0)
            <= getPlanInfo(users[uid].selectedCourse).monthlyHours

\* C9: when the quota validator rejects the requested duration, create
\* reports a validation error, returns false and writes nothing.
C9_NoWriteOnQuotaFailure ==
    [][ \A uid \in HookUsers, profileLoaded \in BOOLEAN, data \in HookData,
           now \in HookClock, storeOk \in BOOLEAN, fetchOk \in BOOLEAN :
          LET info == currentCourseInfo(uid, profileLoaded)
              validation == validateReservationTime(
                                calculateDuration(data.startTime, data.endTime),
                                courseUsage(info), info)
          IN ( /\ uid # NoUser
               /\ ~validation.isValid
               /\ createNewReservation(uid, profileLoaded, data, now, storeOk, fetchOk) )
             => /\ reservations' = reservations
                /\ hook'.error = "validation"
                /\ hook'.returned = FALSE ]_vars

\* C9 witness: a create was refused by the validator while a reservation is
\* already stored
C9_Witness ==
    /\ hook.error = "validation"
    /\ hook.returned = FALSE
    /\ Len(reservations) > 0

RECURSIVE C11_ConfirmedMinutes(_, _)
\* minutes of the confirmed reservations of `list` dated in month `month`
C11_ConfirmedMinutes(list, month) ==
    IF list = <<>> THEN 0
    ELSE LET r == Head(list)
             minutes == (r.endTime[1] * 60 + r.endTime[2])
                        - (r.startTime[1] * 60 + r.startTime[2])
         IN (IF r.status = "confirmed" /\ r.date \div 30 = month
             THEN minutes ELSE 0)
            + C11_ConfirmedMinutes(Tail(list), month)

\* C11: the monthly used hours are the sum of endTime - startTime over
\* exactly the reservations with status confirmed whose date lies in the
\* current calendar month and year of the browser; cancelled and completed
\* reservations and other months contribute nothing; remainingHours =
\* totalHours - usedHours.
C11_MonthlyUsage ==
    (app.phase = "done" /\ app.fn = "calculateMonthlyUsage")
    => LET currentMonth == ((app.today + app.tz) \div (24 * 60)) \div 30
       IN /\ app.result.usedHours = C11_ConfirmedMinutes(app.list, currentMonth)
          /\ app.result.remainingHours
                = app.result.totalHours - app.result.usedHours

\* C12: generateSlots returns every full slot that fits in [open, close):
\* when the duration divides close - open it returns (close - open) / duration
\* slots and the last one ends exactly at close; for 09:00-18:00 and 60
\* minutes it returns the 9 slots 09:00-10:00 ... 17:00-18:00 in ascending
\* order.
C12_EveryFullSlot ==
    (app.phase = "done" /\ app.fn = "generateTimeSlots")
    => LET open == app.businessHours.open[1] * 60 + app.businessHours.open[2]
           close == app.businessHours.close[1] * 60 + app.businessHours.close[2]
           slots == app.result
       IN /\ (close > open /\ (close - open) % app.duration = 0)
                => /\ Len(slots) = (close - open) \div app.duration
                   /\ slots[Len(slots)].endTime = app.businessHours.close
          /\ (open = 9 * 60 /\ close = 18 * 60 /\ app.duration = 60)
                => slots = [i \in 1..9 |->
                              [startTime |-> <<8 + i, 0>>, endTime |-> <<9 + i, 0>>]]

\* C13: the slots returned by generateSlots are ordered and back-to-back:
\* the first starts at open, each lasts exactly the duration, each starts
\* where the previous one ended, and none ends after close (a trailing
\* partial slot is omitted, never truncated or over-running).
C13_SlotsBackToBack ==
    (app.phase = "done" /\ app.fn = "generateTimeSlots")
    => LET close == app.businessHours.close[1] * 60 + app.businessHours.close[2]
           slots == app.result
           Min(t) == t[1] * 60 + t[2]
       IN /\ slots # <<>> => slots[1].startTime = app.businessHours.open
          /\ \A i \in 1..Len(slots) :
                /\ Min(slots[i].endTime) - Min(slots[i].startTime) = app.duration
                /\ Min(slots[i].endTime) <= close
                /\ i > 1 => slots[i].startTime = slots[i - 1].endTime

\* C13 witness: business hours that the duration does not divide, with
\* several slots generated (09:00-17:30 in 60-minute slots)
C13_Witness ==
    /\ app.phase = "done"
    /\ app.fn = "generateTimeSlots"
    /\ app.businessHours = [open |-> <<9, 0>>, close |-> <<17, 30>>]
    /\ app.duration = 60
    /\ Len(app.result) = 8
    /\ app.result[8].endTime = <<17, 0>>

\* C14: isOverlapping(aStart, aEnd, bStart, bEnd) is true exactly when
\* aEnd > bStart and aStart < bEnd; intervals that only touch are not
\* overlapping: 09:00-10:00 against 10:00-11:00 is false, 09:00-10:00 against
\* 09:30-10:30 is true.
C14_OverlapStrict ==
    (app.phase = "done" /\ app.fn = "isTimeOverlapping")
    => LET aStart == app.slot1Start[1] * 60 + app.slot1Start[2]
           aEnd == app.slot1End[1] * 60 + app.slot1End[2]
           bStart == app.slot2Start[1] * 60 + app.slot2Start[2]
           bEnd == app.slot2End[1] * 60 + app.slot2End[2]
       IN /\ app.result <=> (aEnd > bStart /\ aStart < bEnd)
          /\ (aEnd = bStart \/ bEnd = aStart) /\ aStart < aEnd /\ bStart < bEnd
                => ~app.result
          /\ (aStart = 9 * 60 /\ aEnd = 10 * 60 /\ bStart = 9 * 60 + 30
                /\ bEnd = 10 * 60 + 30) => app.result

\* C14 witness: the touching pair 09:00-10:00 / 10:00-11:00 was compared and
\* found not overlapping
C14_Witness ==
    /\ app.phase = "done"
    /\ app.fn = "isTimeOverlapping"
    /\ app.slot1Start = <<9, 0>> /\ app.slot1End = <<10, 0>>
    /\ app.slot2Start = <<10, 0>> /\ app.slot2End = <<11, 0>>
    /\ app.result = FALSE

\* C15: for a selected date D and teacher T the availability result has one
\* entry for every generated slot, and a slot is flagged booked exactly when
\* some confirmed reservation of teacher T on date D overlaps it; cancelled
\* or completed reservations, other dates and other teachers never mark a
\* slot booked.
C15_AvailabilityExclusion ==
    (app.phase = "done" /\ app.fn = "TimeSlotPicker" /\ app.selectedDate # NoDate)
    => LET D == (app.selectedDate[1] + app.tz) \div (24 * 60)
           slots == generateTimeSlots(DEFAULT_BUSINESS_HOURS, LESSON_DURATION)
           given == app.existingReservations
           Min(t) == t[1] * 60 + t[2]
       IN /\ Len(app.result) = Len(slots)
          /\ \A T \in {"t1", "t2"}, i \in 1..Len(app.result) :
                /\ app.result[i].timeSlot = slots[i]
                /\ app.result[i].disabled
                   <=> \E k \in 1..Len(given) :
                          /\ given[k].teacherId = T
                          /\ given[k].date = D
                          /\ given[k].status = "confirmed"
                          /\ Min(given[k].endTime) > Min(slots[i].startTime)
                          /\ Min(given[k].startTime) < Min(slots[i].endTime)

\* C16: every record written by a successful create has status confirmed
\* and createdAt equal to updatedAt, whichever entry point issued the create.
C16_CreatedConfirmed ==
    [][ Len(reservations') > Len(reservations)
        => LET created == reservations'[Len(reservations')]
           IN /\ created.status = "confirmed"
              /\ created.createdAt = created.updatedAt ]_vars

\* C18: every stored reservation has startTime < endTime, both on the slot
\* grid (business open plus a whole multiple of the lesson duration), after
\* any sequence of create, updateReservation and updateReservationTime.
C18_TimesOnGrid ==
    \A i \in 1..Len(reservations) :
        LET startMinutes == reservations[i].startTime[1] * 60 + reservations[i].startTime[2]
            endMinutes == reservations[i].endTime[1] * 60 + reservations[i].endTime[2]
        IN /\ startMinutes < endMinutes
           /\ (startMinutes - 9 * 60) % 60 = 0
           /\ (endMinutes - 9 * 60) % 60 = 0

\* C19: no operation removes a record: the ids in the store only grow, and
\* a cancel keeps the record with its studentId, teacherId, date and times
\* and changes nothing but status and updatedAt.
C19_NeverDeleted ==
    [][ /\ Len(reservations') >= Len(reservations)
        /\ \A s \in Sessions :
             ( /\ call[s].pc = "operation"
               /\ call[s].op = "updateReservationStatus"
               /\ call[s].data.status = "cancelled"
               /\ call'[s].pc = "idle"
               /\ Exists(call[s].id) )
             => LET old == reservations[call[s].id]
                    new == reservations'[call[s].id]
                IN /\ DOMAIN new = DOMAIN old
                   /\ new.status = "cancelled"
                   /\ \A f \in DOMAIN old \ {"status", "updatedAt"} :
                         new[f] = old[f] ]_vars

\* C17: a successful create followed at once by the listing of the
\* student's reservations returns the new record with status confirmed and
\* the submitted date, startTime and endTime: the calendar day picked in the
\* browser survives the conversion to a YYYY-MM-DD string and back, in
\* every time zone.
C17_DateRoundTrip ==
    [][ \A uid \in HookUsers, profileLoaded \in BOOLEAN, data \in HookData,
           now \in HookClock, day \in HookDays, tz \in Zones :
          ( /\ Len(reservations') > Len(reservations)
            /\ data.date = LocalMidnight(day, tz)
            /\ createNewReservation(uid, profileLoaded, data, now, TRUE, TRUE) )
          => \E i \in 1..Len(hook'.reservations) :
                /\ hook'.reservations[i].id = Len(reservations')
                /\ hook'.reservations[i].status = "confirmed"
                /\ hook'.reservations[i].startTime = data.startTime
                /\ hook'.reservations[i].endTime = data.endTime
                /\ hook'.reservations[i].date = day ]_vars

C22_StudentIdFixed ==
    [][ \A i \in 1..Len(reservations) :
           reservations'[i].studentId = reservations[i].studentId ]_vars

\* C26: createdAt is set once, at creation, and no later update through the
\* repository changes it; an update changes only updatedAt and the fields of
\* its payload.
C26_CreatedAtFixed ==
    [][ \A s \in Sessions :
          ( /\ call[s].pc = "operation"
            /\ call[s].op # "createReservation"
            /\ call'[s].pc = "idle"
            /\ Exists(call[s].id) )
          => LET old == reservations[call[s].id]
                 new == reservations'[call[s].id]
             IN /\ new.createdAt = old.createdAt
                /\ \A f \in DOMAIN old \ (DOMAIN call[s].data \cup {"updatedAt"}) :
                      new[f] = old[f] ]_vars

\* C29: the role lookup fails closed: when the user record of the actor
\* cannot be read, the actor counts neither as admin nor as staff, so creating
\* for another student, listing a teacher's day and reading another user's
\* reservations are all refused with a SecurityError, return no data and
\* write nothing.
C29_FailClosed ==
    /\ [] ( (app.phase = "done" /\ ~app.lookupOk)
              => /\ app.fn = "getReservationsByDateAndTeacher"
                      => /\ app.result.error = "SecurityError"
                         /\ app.result.list = <<>>
                 /\ (app.fn = "getUserReservations" /\ app.actor # app.userId)
                      => /\ app.result.error = "SecurityError"
                         /\ app.result.list = <<>> )
    /\ [][ \A s \in Sessions, actor \in Actors, d \in AuthCreateData :
             ( /\ call[s].pc = "idle"
               /\ call'[s].op = "createReservation"
               /\ d.studentId # actor
               /\ createReservation(s, actor, FALSE, d) )
             => /\ call'[s].pc = "rejected"
                /\ call'[s].error = "SecurityError"
                /\ reservations' = reservations ]_vars

\* C29 witness: the administrator, whose user record could not be read, asked
\* for a teacher's day that holds a confirmed reservation and was refused
C29_Witness ==
    /\ app.phase = "done"
    /\ app.fn = "getReservationsByDateAndTeacher"
    /\ app.actor = "a1"
    /\ ~app.lookupOk
    /\ app.result.error = "SecurityError"
    /\ \E i \in 1..Len(reservations) :
          /\ reservations[i].teacherId = app.teacherId
          /\ reservations[i].status = "confirmed"
          /\ reservations[i].date = app.date \div (24 * 60)

C30_SubmittedSlotNotBooked ==
    [][ (app.phase = "form" /\ Len(app'.onSubmit) > Len(app.onSubmit))
          => ~isTimeSlotBooked(app'.selectedTimeSlot[1],
                 dateReservations(app'.selectedDate,
                     app'.existingReservations, app'.tz)) ]_vars

\* C23: the kind of a failed hook operation tells its cause: a refusal by the
\* security check is reported as "permission", a quota violation as
\* "validation", and "network" is reported only when the store itself failed;
\* a refusal is never reported as "network".
C23_OutcomeKinds ==
    [][ /\ \A uid \in HookUsers, lookupOk \in BOOLEAN, id \in DocIds,
              now \in HookClock, storeOk \in BOOLEAN, fetchOk \in BOOLEAN :
             ( /\ cancelReservation(uid, lookupOk, id, now, storeOk, fetchOk)
               /\ statusSecurityCheck(uid, lookupOk, id, [status |-> "cancelled"])
                    = "SecurityError" )
             => hook'.error = "permission"
        /\ \A uid \in HookUsers, profileLoaded \in BOOLEAN, data \in HookData,
              now \in HookClock, storeOk \in BOOLEAN, fetchOk \in BOOLEAN :
             createNewReservation(uid, profileLoaded, data, now, storeOk, fetchOk)
             => LET info == currentCourseInfo(uid, profileLoaded)
                    valid == validateReservationTime(
                                 calculateDuration(data.startTime, data.endTime),
                                 courseUsage(info), info).isValid
                IN /\ uid = NoUser => hook'.error = "permission"
                   /\ (uid # NoUser /\ ~valid) => hook'.error = "validation"
                   /\ hook'.error = "network" => (~storeOk \/ ~fetchOk) ]_vars

\* C24: every successful mutation through the client state layer (create,
\* generic update, status update or cancel, time update) ends with a re-fetch,
\* so that when it is over the cached list is the user's list in the store.
C24_CacheFollowsStore ==
    [][ \A k \in Tasks :
          ( /\ app.phase = "store"
            /\ InFlight(app) = {k}
            /\ InFlight(app') = {}
            /\ \/ app.tasks[k].op = "updateReservationData"
               \/ app.tasks[k].caller # "none"
            /\ app.tasks[k].actor = app.user
            /\ app'.user = app.user
            /\ app'.error = "none" )
          => app'.reservations = QueryByStudent(reservations', app.user, 1) ]_vars

\* C27: when nobody is signed in and no store action is in flight, the cached
\* reservations, the teacher's reservations and the selected reservation are
\* all empty, however a sign-out interleaves with a fetchUserReservations
\* started before it.
C27_SignedOutStoreEmpty ==
    (app.phase = "store" /\ app.user = NoUser /\ InFlight(app) = {})
    => /\ app.reservations = <<>>
       /\ app.teacherReservations = <<>>
       /\ app.selectedReservation = <<>>

\* C28: the store's loading flag is true exactly while at least one async
\* store action has started and not finished, also when actions overlap or
\* call refreshReservations.
C28_LoadingIffInFlight ==
    app.phase = "store" => (app.loading <=> InFlight(app) # {})

====
